---- MODULE Spec2Model ----
(***************************************************************************)
(* Model of the render-world preparation systems of warbler_grass:         *)
(*   src/src/render/prepare.rs  prepare_explicit_positions_buffer,         *)
(*                              prepare_height_buffer,                     *)
(*                              prepare_height_map_buffer,                 *)
(*                              prepare_uniform_buffers,                   *)
(*                              prepare_texture_from_data                  *)
(*   src/src/render.rs          prepare_instance_buffers,                  *)
(*                              queue_grass_buffers                        *)
(*                                                                         *)
(* A GPU object (buffer, texture, bind group) is modelled by what it was   *)
(* built from; that a NEW object was created is recorded in the ledger     *)
(* gpu, which counts the objects each system created in the current frame. *)
(* A texture view is named by the image handle it belongs to, or is        *)
(* FallbackView.                                                           *)
(***************************************************************************)
EXTENDS Integers, Sequences, FiniteSets, TLC

VARIABLES
    config,           \* what the app holds: the scheduled systems, the entities, the images
    cache,            \* GrassCache: Entity -> cache entry, or NoEntry
    heightStorage,    \* Local<Vec<(Entity, Handle<Image>)>> of prepare_height_buffer
    heightMapStorage, \* Local<Vec<(Entity, Handle<Image>, Aabb)>> of prepare_height_map_buffer
    last_texture_id,  \* Local<Option<TextureViewId>> of prepare_uniform_buffers
    images,           \* RenderAssets<Image>: the handles that resolve
    height,           \* WarblerHeight component of each entity
    height_map,       \* HeightMap component of each entity (its handle)
    wind,             \* wind vector of the region configuration
    regionChanged,    \* region_config.is_changed() as prepare_uniform_buffers sees it
    cacheChanged,     \* cache.is_changed() as prepare_uniform_buffers sees it
    ran,              \* the systems that already ran in the current frame
    gpu,              \* system -> number of GPU objects it created in the current frame
    lastRun,          \* the system that ran last in the current frame, what its query yielded,
                      \* the entities it pushed to has_loaded, and what kept it from skipping
    quiet,            \* no input changed in the current frame so far
    idle,             \* quiet, and the frame began with no flag set and no pending load
    skipped,          \* <<system, entity>>: observed without a cache entry, not prepared since
    views,            \* the views that have a RenderPhase<Opaque3d>
    meshes,           \* RenderAssets<Mesh>: the mesh handles that resolve
    phase,            \* view -> the draw commands added to its phase in the current frame
    unmeshed,         \* entities queue_grass_buffers skipped for their mesh, not drawn since
    input,            \* prepare_texture_from_data: the samples as they were handed in
    data,             \* prepare_texture_from_data: the Vec<T>, padded in place
    texture,          \* prepare_texture_from_data: the texture written, if any
    packer            \* prepare_texture_from_data: "ready", "done" or "panicked"

vars == <<config, cache, heightStorage, heightMapStorage, last_texture_id, images, height,
          height_map, wind, regionChanged, cacheChanged, ran, gpu, lastRun, quiet, idle,
          skipped, views, meshes, phase, unmeshed, input, data, texture, packer>>

frameVars == <<config, cache, heightStorage, heightMapStorage, last_texture_id, images, height,
               height_map, wind, regionChanged, cacheChanged, ran, gpu, lastRun, quiet,
               idle, skipped>>

packerVars == <<input, data, texture, packer>>

queueVars == <<views, meshes, phase, unmeshed>>

----------------------------------------------------------------------------
(* Bounds and the small sets the inputs are drawn from.                    *)

\* longest deferred-load list explored with a deferred-load system on its own
MaxPending == 2

\* longest deferred-load list explored with the whole schedule
MaxFramePending == 1

\* longest input of prepare_texture_from_data explored
MaxLen == 5

Entities == {"e1", "e2"}

\* the order in which a query yields the entities it holds
EntityOrder == <<"e1", "e2">>

Handles == {"h1", "h2"}

\* the handle of GrassNoiseTexture / RegionConfiguration::wind_noise_texture
NoiseHandle == "hn"

Winds == {"w10", "w01"}

\* the samples a data vector may hold; T::default() is DefaultValue
Samples == {1, 2}

DefaultValue == 0

\* number of explicit positions of each entity's Grass component
Positions == [e \in Entities |-> IF e = "e1" THEN 0 ELSE 4]

Systems == {"explicit", "height", "height_map", "uniform", "instance"}

\* the views a frame may hold
Views == {"v1", "v2"}

\* the Handle<Mesh> component of each entity
MeshOf == [e \in Entities |-> IF e = "e1" THEN "m1" ELSE "m2"]

\* Option<T>: None is the empty sequence, Some(x) the sequence holding x
None == <<>>

Some(x) == <<x>>

FallbackView == "fallback"

\* WarblerHeight::Uniform; WarblerHeight::Texture(h) is the handle h
Uniform == "Uniform"

----------------------------------------------------------------------------
(* prepare_texture_from_data                                               *)

RECURSIVE FloorSqrt(_, _)
\* (n as f32).sqrt() as u32, which is exact for every n explored
FloorSqrt(n, r) == IF (r + 1) * (r + 1) > n THEN r ELSE FloorSqrt(n, r + 1)

\* a side one short of the code's
TextureSideNoPlusOne(n) == FloorSqrt(n, 0)

\* let sqrt = (data.len() as f32).sqrt() as u32 + 1
TextureSide(n) == FloorSqrt(n, 0) + 1

\* a padding of ones
FillDataOfOnes(k) == [i \in 1..k |-> 1]

\* vec![T::default(); k]
FillData(k) == [i \in 1..k |-> DefaultValue]

\* mem::size_of::<T>() of the f32 samples the caller packs
ElementSize == 4

\* every vector of at most MaxLen samples
Inputs == UNION {[1..n -> Samples] : n \in 0..MaxLen}

PrepareTextureFromData ==
    /\ packer = "ready"
    /\ LET sqrt == TextureSide(Len(data))
       IN  IF sqrt * sqrt < Len(data)
           \* (sqrt * sqrt) as usize - data.len() overflows
           THEN /\ packer' = "panicked"
                /\ UNCHANGED <<data, texture>>
           ELSE /\ data' = data \o FillData(sqrt * sqrt - Len(data))
                /\ texture' = Some([width |-> sqrt, height |-> sqrt,
                                    bytes_per_row |-> ElementSize * sqrt,
                                    rows_per_image |-> sqrt,
                                    texels |-> data'])
                /\ packer' = "done"
    /\ UNCHANGED input
    /\ UNCHANGED frameVars
    /\ UNCHANGED queueVars

----------------------------------------------------------------------------
(* The cache and the deferred-load lists.                                  *)

\* the cache entry of a chunk no system has prepared yet
DefaultEntry ==
    [grass_buffer |-> None, explicit_count |-> 0, explicit_xz_buffer |-> None,
     explicit_y_buffer |-> None, height_buffer |-> None,
     blade_height_texture |-> None, height_map |-> None, uniform_bindgroup |-> None]

\* images.get(handle): the texture view of a resolved handle
Resolved(handle) == handle \in images

\* the records of a deferred-load list that belong to the entity
RecordsOf(storage, entity) == SelectSeq(storage, LAMBDA r : r[1] = entity)

\* a retain that drops nothing
RetainAll(storage, has_loaded) == storage

\* storage.retain(|(e, ..)| !has_loaded.contains(e))
Retain(storage, has_loaded) == SelectSeq(storage, LAMBDA r : r[1] \notin has_loaded)

\* a scan that pushes a record whether the handle resolves or not
PushesRecordAlways(handle) == TRUE

\* the else branch of images.get(handle) in the second loop: the record is pushed
PushesRecord(handle) == ~Resolved(handle)

\* the entities of a query in the order the query yields them
RECURSIVE Iter(_, _)
Iter(q, i) ==
    IF i > Len(EntityOrder) THEN <<>>
    ELSE (IF EntityOrder[i] \in q THEN <<EntityOrder[i]>> ELSE <<>>) \o Iter(q, i + 1)

\* the queries a system may be handed, given the entities it would push a record
\* for: the list it pushes to stays within the bound
Queries(storage, pushing) ==
    {q \in SUBSET config.world :
        Len(storage) + Cardinality(q \cap pushing) <= config.pending}

\* skipped after a run of the system that observed q and wrote the entries of written
Skipped(system, q, written) ==
    (skipped \ {<<system, e>> : e \in written})
        \cup {<<system, e>> : e \in q \ DOMAIN cache}

\* the system is scheduled and has not run in the current frame
Due(system) == system \in config.scheduled /\ system \notin ran

----------------------------------------------------------------------------
(* prepare_explicit_positions_buffer                                       *)

\* the body of the loop for an entity that has a cache entry
ExplicitChunk(chunk, id) ==
    [chunk EXCEPT !.explicit_count = Positions[id],
                  !.explicit_xz_buffer = Some("xz"),
                  !.explicit_y_buffer = Some(TextureSide(Positions[id])),
                  !.height_buffer = Some("Grass::height")]

PrepareExplicitPositionsBuffer ==
    /\ Due("explicit")
    /\ \E q \in SUBSET config.world :
        /\ cache' = [id \in DOMAIN cache |->
                        IF id \in q THEN ExplicitChunk(cache[id], id) ELSE cache[id]]
        \* xz buffer, y texture, y bind group, height buffer, height bind group
        /\ gpu' = [gpu EXCEPT !["explicit"] = 5 * Cardinality(q \cap DOMAIN cache)]
        \* cache.get_mut goes through DerefMut of ResMut
        /\ cacheChanged' = (cacheChanged \/ q # {})
        /\ lastRun' = [system |-> "explicit", query |-> q, loaded |-> {}, dirty |-> {}]
        /\ skipped' = Skipped("explicit", q, q \cap DOMAIN cache)
        /\ quiet' = (quiet /\ q = {})
        /\ idle' = (idle /\ q = {})
    /\ ran' = ran \cup {"explicit"}
    /\ UNCHANGED <<config, heightStorage, heightMapStorage, last_texture_id, images,
                   height, height_map, wind, regionChanged>>
    /\ UNCHANGED queueVars
    /\ UNCHANGED packerVars

----------------------------------------------------------------------------
(* prepare_height_buffer                                                   *)

\* the first loop: the pending records, in order
RECURSIVE ResolveHeights(_, _, _)
ResolveHeights(storage, i, acc) ==
    IF i > Len(storage) THEN acc
    ELSE LET entity == storage[i][1]
             heights_texture == storage[i][2]
         IN  IF entity \in DOMAIN acc.cache /\ Resolved(heights_texture)
             THEN ResolveHeights(storage, i + 1,
                    [cache |-> [acc.cache EXCEPT ![entity].blade_height_texture =
                                                    Some(heights_texture)],
                     has_loaded |-> acc.has_loaded \cup {entity},
                     made |-> acc.made + 1])
             ELSE ResolveHeights(storage, i + 1, acc)

\* the second loop: the entities of the query, in order
RECURSIVE ScanHeights(_, _, _)
ScanHeights(entities, i, acc) ==
    IF i > Len(entities) THEN acc
    ELSE LET entity == entities[i]
             h == height[entity]
         IN  IF entity \notin DOMAIN acc.cache
             THEN ScanHeights(entities, i + 1, acc)
             ELSE IF h = Uniform
             THEN ScanHeights(entities, i + 1,
                    [acc EXCEPT !.cache[entity].height_buffer = Some("WarblerHeight::Uniform"),
                                !.made = acc.made + 2])
             ELSE ScanHeights(entities, i + 1,
                    [cache |-> [acc.cache EXCEPT ![entity].blade_height_texture =
                                  Some(IF Resolved(h) THEN h ELSE FallbackView)],
                     storage |-> IF PushesRecord(h) THEN Append(acc.storage, <<entity, h>>)
                                 ELSE acc.storage,
                     made |-> acc.made + 1])

PrepareHeightBuffer ==
    /\ Due("height")
    /\ \E q \in Queries(heightStorage,
                        {e \in DOMAIN cache : height[e] # Uniform /\ ~Resolved(height[e])}) :
        LET first == ResolveHeights(heightStorage, 1,
                        [cache |-> cache, has_loaded |-> {}, made |-> 0])
            second == ScanHeights(Iter(q, 1), 1,
                        [cache |-> first.cache,
                         storage |-> Retain(heightStorage, first.has_loaded),
                         made |-> first.made])
        IN  /\ cache' = second.cache
            /\ heightStorage' = second.storage
            /\ gpu' = [gpu EXCEPT !["height"] = second.made]
            /\ cacheChanged' = (cacheChanged \/ heightStorage # <<>> \/ q # {})
            /\ lastRun' = [system |-> "height", query |-> q, loaded |-> first.has_loaded,
                            dirty |-> {}]
            /\ skipped' = Skipped("height", q, first.has_loaded \cup (q \cap DOMAIN cache))
            /\ quiet' = (quiet /\ q = {})
            /\ idle' = (idle /\ q = {})
    /\ ran' = ran \cup {"height"}
    /\ UNCHANGED <<config, heightMapStorage, last_texture_id, images, height, height_map, wind,
                   regionChanged>>
    /\ UNCHANGED queueVars
    /\ UNCHANGED packerVars

----------------------------------------------------------------------------
(* prepare_height_map_buffer.  The Aabb a record carries only sizes the    *)
(* uniform buffer bound next to the texture; it is left out.               *)

\* a write that inserts the entry it does not find
WriteHeightMapOrInsert(c, e, view) ==
    [x \in DOMAIN c \cup {e} |->
        IF x = e
        THEN [(IF e \in DOMAIN c THEN c[e] ELSE DefaultEntry) EXCEPT !.height_map = Some(view)]
        ELSE c[x]]

\* a write that keeps the bind group the entry already has
WriteHeightMapIfAbsent(c, e, view) ==
    IF e \in DOMAIN c /\ c[e].height_map = None
    THEN [c EXCEPT ![e].height_map = Some(view)]
    ELSE c

\* if let Some(chunk) = cache.get_mut(e) { chunk.height_map = Some(bind_group) }
WriteHeightMap(c, e, view) ==
    IF e \in DOMAIN c THEN [c EXCEPT ![e].height_map = Some(view)] ELSE c

\* the first loop: the pending records, in order
RECURSIVE ResolveHeightMaps(_, _, _)
ResolveHeightMaps(storage, i, acc) ==
    IF i > Len(storage) THEN acc
    ELSE LET e == storage[i][1]
             handle == storage[i][2]
         IN  IF Resolved(handle)
             THEN ResolveHeightMaps(storage, i + 1,
                    [cache |-> WriteHeightMap(acc.cache, e, handle),
                     has_loaded |-> acc.has_loaded \cup {e},
                     made |-> acc.made + 2])
             ELSE ResolveHeightMaps(storage, i + 1, acc)

\* a view taken from the handle whether it resolves or not
HeightMapTextureUnchecked(handle) == handle

\* the view the second loop binds: the texture's, or the fallback image's
HeightMapTexture(handle) == IF Resolved(handle) THEN handle ELSE FallbackView

\* the second loop: the entities of the query, in order
RECURSIVE ScanHeightMaps(_, _, _)
ScanHeightMaps(entities, i, acc) ==
    IF i > Len(entities) THEN acc
    ELSE LET entity == entities[i]
             handle == height_map[entity]
             height_map_texture == HeightMapTexture(handle)
         IN  ScanHeightMaps(entities, i + 1,
                [cache |-> WriteHeightMap(acc.cache, entity, height_map_texture),
                 storage |-> IF PushesRecord(handle)
                             THEN Append(acc.storage, <<entity, handle>>)
                             ELSE acc.storage,
                 made |-> acc.made + 2])

PrepareHeightMapBuffer ==
    /\ Due("height_map")
    /\ \E q \in Queries(heightMapStorage, {e \in Entities : ~Resolved(height_map[e])}) :
        LET first == ResolveHeightMaps(heightMapStorage, 1,
                        [cache |-> cache, has_loaded |-> {}, made |-> 0])
            second == ScanHeightMaps(Iter(q, 1), 1,
                        [cache |-> first.cache,
                         storage |-> Retain(heightMapStorage, first.has_loaded),
                         made |-> first.made])
        IN  /\ cache' = second.cache
            /\ heightMapStorage' = second.storage
            /\ gpu' = [gpu EXCEPT !["height_map"] = second.made]
            /\ cacheChanged' = (cacheChanged \/ first.has_loaded # {} \/ q # {})
            /\ lastRun' = [system |-> "height_map", query |-> q,
                            loaded |-> first.has_loaded, dirty |-> {}]
            /\ skipped' = Skipped("height_map", q,
                                  (first.has_loaded \cup q) \cap DOMAIN cache)
            /\ quiet' = (quiet /\ q = {})
            /\ idle' = (idle /\ q = {})
    /\ ran' = ran \cup {"height_map"}
    /\ UNCHANGED <<config, heightStorage, last_texture_id, images, height, height_map, wind,
                   regionChanged>>
    /\ UNCHANGED queueVars
    /\ UNCHANGED packerVars

----------------------------------------------------------------------------
(* prepare_uniform_buffers                                                 *)

\* images.get(&noise_config.0).unwrap_or(&fallback_img).texture_view
NoiseView == IF Resolved(NoiseHandle) THEN NoiseHandle ELSE FallbackView

\* the operands of the dirty check that are set
Dirty ==
    (IF regionChanged THEN {"region"} ELSE {})
        \cup (IF Some(NoiseView) # last_texture_id THEN {"texture"} ELSE {})
        \cup (IF cacheChanged THEN {"cache"} ELSE {})

\* a dirty check that looks at the region configuration only
SkipsUnlessRegionChanged == ~regionChanged

\* a dirty check that forgets the texture
SkipsIgnoringTexture == ~regionChanged /\ ~cacheChanged

\* a dirty check that forgets the cache
SkipsIgnoringCache == ~regionChanged /\ Some(NoiseView) = last_texture_id

\* the condition of the early return
Skips == ~regionChanged /\ Some(NoiseView) = last_texture_id /\ ~cacheChanged

\* the bind group built from the region configuration and the noise view: the
\* configuration buffer at binding 0, the noise view at binding 1
RegionBindGroup ==
    Some([bindings |-> <<"config", "noise">>, wind |-> wind, view |-> NoiseView])

PrepareUniformBuffers ==
    /\ Due("uniform")
    /\ IF Skips
       THEN /\ UNCHANGED <<cache, last_texture_id>>
            /\ gpu' = [gpu EXCEPT !["uniform"] = 0]
       ELSE /\ last_texture_id' = Some(NoiseView)
            /\ cache' = [e \in DOMAIN cache |->
                            [cache[e] EXCEPT !.uniform_bindgroup = RegionBindGroup]]
            \* the config buffer and the bind group
            /\ gpu' = [gpu EXCEPT !["uniform"] = 2]
    \* what changed before this run is not newer than it at the next one, and
    \* neither is what this run wrote itself
    /\ regionChanged' = FALSE
    /\ cacheChanged' = FALSE
    /\ lastRun' = [system |-> "uniform", query |-> {}, loaded |-> {}, dirty |-> Dirty]
    /\ ran' = ran \cup {"uniform"}
    /\ UNCHANGED <<config, heightStorage, heightMapStorage, images, height, height_map,
                   wind, quiet, idle, skipped>>
    /\ UNCHANGED queueVars
    /\ UNCHANGED packerVars

----------------------------------------------------------------------------
(* prepare_instance_buffers                                                *)

\* the bind group of lines 61-94: the colour buffer, the wind buffer and the view
\* of region_config.wind_noise_texture at bindings 0, 1 and 2
InstanceBindGroup ==
    Some([bindings |-> <<"color", "wind", "noise">>, wind |-> wind, view |-> NoiseView])

PrepareInstanceBuffers ==
    /\ Due("instance")
    /\ cache' = [e \in DOMAIN cache |->
                    [cache[e] EXCEPT !.grass_buffer = Some("instances"),
                                     !.uniform_bindgroup = InstanceBindGroup]]
    \* entity buffer, colour buffer, wind buffer and bind group, for every entry
    /\ gpu' = [gpu EXCEPT !["instance"] = 4 * Cardinality(DOMAIN cache)]
    \* cache.values_mut goes through DerefMut of ResMut
    /\ cacheChanged' = TRUE
    /\ lastRun' = [system |-> "instance", query |-> {}, loaded |-> {}, dirty |-> {}]
    /\ ran' = ran \cup {"instance"}
    /\ UNCHANGED <<config, heightStorage, heightMapStorage, last_texture_id, images,
                   height, height_map, wind, regionChanged, quiet, idle, skipped>>
    /\ UNCHANGED queueVars
    /\ UNCHANGED packerVars

----------------------------------------------------------------------------
(* queue_grass_buffers.  It runs in the queue stage, after every system of *)
(* the prepare stage.  The pipeline a command carries is named by the view *)
(* and the mesh its key and layout come from; the sort distance is left    *)
(* out.                                                                    *)

\* a lookup that finds every mesh
MeshResolvedAlways(mesh_handle) == TRUE

\* meshes.get(mesh_handle) is Some
MeshResolved(mesh_handle) == mesh_handle \in meshes

\* the entities the phases hold a draw command of
Drawn(phases) ==
    UNION {{phases[v][i].entity : i \in 1..Len(phases[v])} : v \in Views}

\* the inner loop: the entities of the query, in order, for one view
RECURSIVE QueueView(_, _, _, _)
QueueView(view, entities, i, transparent_phase) ==
    IF i > Len(entities) THEN transparent_phase
    ELSE LET entity == entities[i]
             mesh_handle == MeshOf[entity]
         IN  IF MeshResolved(mesh_handle)
             THEN QueueView(view, entities, i + 1,
                    Append(transparent_phase,
                           [entity |-> entity,
                            pipeline |-> <<view, mesh_handle>>,
                            draw_function |-> "GrassDrawCall"]))
             ELSE QueueView(view, entities, i + 1, transparent_phase)

QueueGrassBuffers ==
    /\ "queue" \in config.scheduled
    /\ "queue" \notin ran
    /\ config.scheduled \ {"queue"} \subseteq ran
    /\ \E q \in SUBSET config.world :
        /\ phase' = [v \in Views |->
                        IF v \in views THEN QueueView(v, Iter(q, 1), 1, phase[v])
                        ELSE phase[v]]
        /\ lastRun' = [system |-> "queue", query |-> q, loaded |-> {}, dirty |-> {}]
        /\ unmeshed' = (unmeshed \ Drawn(phase')) \cup {e \in q : MeshOf[e] \notin meshes}
    /\ ran' = ran \cup {"queue"}
    /\ UNCHANGED <<config, cache, heightStorage, heightMapStorage, last_texture_id, images,
                   height, height_map, wind, regionChanged, cacheChanged, gpu, quiet, idle,
                   skipped, views, meshes>>
    /\ UNCHANGED packerVars

----------------------------------------------------------------------------
(* The frame and what happens around the systems: the main world changes   *)
(* and is extracted before the systems of a frame run.                     *)

Extracting == ran = {}

\* an image finishes loading
LoadImage ==
    /\ Extracting
    /\ \E h \in config.assets \ images : images' = images \cup {h}
    /\ quiet' = FALSE
    /\ idle' = FALSE
    /\ UNCHANGED <<config, cache, heightStorage, heightMapStorage, last_texture_id, height,
                   height_map, wind, regionChanged, cacheChanged, ran, gpu, lastRun, skipped>>
    /\ UNCHANGED queueVars
    /\ UNCHANGED packerVars

\* a mesh finishes loading
LoadMesh ==
    /\ Extracting
    /\ \E e \in config.world :
        /\ MeshOf[e] \notin meshes
        /\ meshes' = meshes \cup {MeshOf[e]}
    /\ quiet' = FALSE
    /\ idle' = FALSE
    /\ UNCHANGED <<config, cache, heightStorage, heightMapStorage, last_texture_id, images,
                   height, height_map, wind, regionChanged, cacheChanged, ran, gpu, lastRun,
                   skipped, views, phase, unmeshed>>
    /\ UNCHANGED packerVars

\* the WarblerHeight component of an entity is set to another value
SetHeight ==
    /\ Extracting
    /\ "height" \in config.scheduled
    /\ \E e \in config.world : \E h \in ((config.assets \cap Handles) \cup {Uniform}) \ {height[e]} :
        height' = [height EXCEPT ![e] = h]
    /\ quiet' = FALSE
    /\ idle' = FALSE
    /\ UNCHANGED <<config, cache, heightStorage, heightMapStorage, last_texture_id, images,
                   height_map, wind, regionChanged, cacheChanged, ran, gpu, lastRun, skipped>>
    /\ UNCHANGED queueVars
    /\ UNCHANGED packerVars

\* the HeightMap component of an entity is set to another handle
SetHeightMap ==
    /\ Extracting
    /\ "height_map" \in config.scheduled
    /\ \E e \in config.world : \E h \in (config.assets \cap Handles) \ {height_map[e]} :
        height_map' = [height_map EXCEPT ![e] = h]
    /\ quiet' = FALSE
    /\ idle' = FALSE
    /\ UNCHANGED <<config, cache, heightStorage, heightMapStorage, last_texture_id, images,
                   height, wind, regionChanged, cacheChanged, ran, gpu, lastRun, skipped>>
    /\ UNCHANGED queueVars
    /\ UNCHANGED packerVars

\* the region configuration is written with another wind vector
SetWind ==
    /\ Extracting
    /\ \E w \in Winds \ {wind} : wind' = w
    /\ regionChanged' = TRUE
    /\ quiet' = FALSE
    /\ idle' = FALSE
    /\ UNCHANGED <<config, cache, heightStorage, heightMapStorage, last_texture_id, images,
                   height, height_map, cacheChanged, ran, gpu, lastRun, skipped>>
    /\ UNCHANGED queueVars
    /\ UNCHANGED packerVars

\* the registration step inserts the cache entry of a chunk
Register ==
    /\ Extracting
    /\ \E e \in config.world \ DOMAIN cache :
        cache' = [x \in DOMAIN cache \cup {e} |-> IF x = e THEN DefaultEntry ELSE cache[x]]
    /\ cacheChanged' = TRUE
    /\ quiet' = FALSE
    /\ idle' = FALSE
    /\ UNCHANGED <<config, heightStorage, heightMapStorage, last_texture_id, images,
                   height, height_map, wind, regionChanged, ran, gpu, lastRun, skipped>>
    /\ UNCHANGED queueVars
    /\ UNCHANGED packerVars

\* the cache entry of a despawned chunk is removed
Remove ==
    /\ Extracting
    /\ \E e \in DOMAIN cache : cache' = [x \in DOMAIN cache \ {e} |-> cache[x]]
    /\ cacheChanged' = TRUE
    /\ quiet' = FALSE
    /\ idle' = FALSE
    /\ UNCHANGED <<config, heightStorage, heightMapStorage, last_texture_id, images,
                   height, height_map, wind, regionChanged, ran, gpu, lastRun, skipped>>
    /\ UNCHANGED queueVars
    /\ UNCHANGED packerVars

NoRun == [system |-> "none", query |-> {}, loaded |-> {}, dirty |-> {}]

\* every system of the frame has run: the next frame begins
BeginFrame ==
    /\ ran = config.scheduled
    /\ ran' = {}
    /\ gpu' = [s \in Systems |-> 0]
    /\ lastRun' = NoRun
    /\ quiet' = TRUE
    /\ idle' = (/\ ~regionChanged
                /\ ~cacheChanged
                /\ Some(NoiseView) = last_texture_id
                /\ heightStorage = <<>>
                /\ heightMapStorage = <<>>)
    /\ UNCHANGED <<config, cache, heightStorage, heightMapStorage, last_texture_id, images,
                   height, height_map, wind, regionChanged, cacheChanged, skipped>>
    \* the render world is cleared: every phase starts the frame empty
    /\ phase' = [v \in Views |-> <<>>]
    /\ UNCHANGED <<views, meshes, unmeshed>>
    /\ UNCHANGED packerVars

\* the state of an app of the given configuration before its first frame
Start(c) ==
    /\ config = c
    /\ cache = <<>>
    /\ heightStorage = <<>>
    /\ heightMapStorage = <<>>
    /\ last_texture_id = None
    /\ images = {}
    \* a component no scheduled system reads, or of an entity never spawned, is not varied
    /\ height \in [Entities -> Handles \cup {Uniform}]
    /\ height_map \in [Entities -> Handles]
    /\ \A e \in Entities :
        /\ IF e \in c.world /\ "height" \in c.scheduled
           THEN height[e] \in c.assets \cup {Uniform}
           ELSE height[e] = Uniform
        /\ IF e \in c.world /\ "height_map" \in c.scheduled
           THEN height_map[e] \in c.assets
           ELSE height_map[e] = "h1"
    /\ wind = "w10"
    \* a resource counts as changed for a system that has not run yet
    /\ regionChanged = TRUE
    /\ cacheChanged = TRUE
    /\ ran = {}
    /\ gpu = [s \in Systems |-> 0]
    /\ lastRun = NoRun
    /\ quiet = FALSE
    /\ idle = FALSE
    /\ skipped = {}

\* the whole schedule with one chunk and one height texture, and the systems that
\* write the region bind group and flag the cache with every chunk
FrameConfigs ==
    {[scheduled |-> Systems, world |-> {"e1"}, assets |-> {"h1", NoiseHandle},
      pending |-> MaxFramePending],
     [scheduled |-> {"explicit", "uniform", "instance"}, world |-> Entities,
      assets |-> {NoiseHandle}, pending |-> MaxFramePending]}

\* the texture packer is not under way
PackerOff == input = <<>> /\ data = <<>> /\ texture = None /\ packer = "off"

\* no view has an opaque phase and no mesh is loaded: nothing is drawn
QueueOff ==
    /\ views = {}
    /\ meshes = {}
    /\ phase = [v \in Views |-> <<>>]
    /\ unmeshed = {}

Init == PackerOff /\ QueueOff /\ \E c \in FrameConfigs : Start(c)

Next ==
    \/ PrepareExplicitPositionsBuffer
    \/ PrepareHeightBuffer
    \/ PrepareHeightMapBuffer
    \/ PrepareUniformBuffers
    \/ PrepareInstanceBuffers
    \/ LoadImage
    \/ SetHeight
    \/ SetWind
    \/ Register
    \/ Remove
    \/ BeginFrame

Spec == Init /\ [][Next]_vars

\* one of the two deferred-load systems on its own, with every chunk and height texture
DeferredConfigs ==
    {[scheduled |-> {s}, world |-> Entities, assets |-> Handles, pending |-> MaxPending] :
        s \in {"height", "height_map"}}

InitDeferred == PackerOff /\ QueueOff /\ \E c \in DeferredConfigs : Start(c)

NextDeferred ==
    \/ PrepareHeightBuffer
    \/ PrepareHeightMapBuffer
    \/ LoadImage
    \/ SetHeight
    \/ SetHeightMap
    \/ Register
    \/ Remove
    \/ BeginFrame

SpecDeferred == InitDeferred /\ [][NextDeferred]_vars

\* prepare_texture_from_data on its own, on every input of at most MaxLen samples
InitPacker ==
    /\ Start([scheduled |-> {}, world |-> {}, assets |-> {}, pending |-> 0])
    /\ QueueOff
    /\ input \in Inputs
    /\ data = input
    /\ texture = None
    /\ packer = "ready"

NextPacker == PrepareTextureFromData

SpecPacker == InitPacker /\ [][NextPacker]_vars

\* the prepare stage followed by the queue stage: the whole schedule with one
\* chunk and one view, and the instance system with every chunk and view
QueueConfigs ==
    {[scheduled |-> Systems \cup {"queue"}, world |-> {"e1"}, assets |-> {"h1"},
      pending |-> MaxFramePending],
     [scheduled |-> {"instance", "queue"}, world |-> Entities, assets |-> {},
      pending |-> MaxFramePending]}

InitQueue ==
    /\ PackerOff
    /\ \E c \in QueueConfigs :
        /\ Start(c)
        /\ views = IF c.world = Entities THEN Views ELSE {"v1"}
    /\ meshes = {}
    /\ phase = [v \in Views |-> <<>>]
    /\ unmeshed = {}

NextQueue ==
    \/ PrepareExplicitPositionsBuffer
    \/ PrepareHeightBuffer
    \/ PrepareHeightMapBuffer
    \/ PrepareUniformBuffers
    \/ PrepareInstanceBuffers
    \/ QueueGrassBuffers
    \/ LoadImage
    \/ LoadMesh
    \/ Register
    \/ Remove
    \/ BeginFrame

SpecQueue == InitQueue /\ [][NextQueue]_vars

----------------------------------------------------------------------------
(* Properties.                                                             *)

\* the step is the run of the system in the current frame
Runs(system) == system \notin ran /\ system \in ran'

\* the entity has a record in the deferred-load list
HasRecord(storage, entity) == RecordsOf(storage, entity) # <<>>

\* every record of the entity in the list asks for the handle
OnlyAsksFor(storage, entity, handle) ==
    \A i \in 1..Len(storage) : storage[i][1] = entity => storage[i][2] = handle

\* C1: each deferred-load list holds at most one record per chunk identity,
\* however often an entity with an unresolved texture is observed.
C1_OneRecordPerChunk ==
    \A e \in Entities :
        /\ Len(RecordsOf(heightStorage, e)) <= 1
        /\ Len(RecordsOf(heightMapStorage, e)) <= 1

\* C2: the run that finds the handle of a registered chunk resolved while a
\* record asking for it is pending leaves no record of the chunk, and, the
\* chunk's records all asking for that handle, it writes the bind group of the
\* real texture into the entry; and a chunk without a record gets none while its
\* handle stays resolved and unchanged.
C2_DeferredLoadConverges ==
    [][\A e \in Entities :
        /\ (/\ Runs("height")
            /\ e \in DOMAIN cache
            /\ height[e] \in Handles
            /\ Resolved(height[e])
            /\ <<e, height[e]>> \in {heightStorage[i] : i \in 1..Len(heightStorage)})
           => /\ ~HasRecord(heightStorage', e)
              /\ OnlyAsksFor(heightStorage, e, height[e])
                    => cache'[e].blade_height_texture = Some(height[e])
        /\ (/\ Runs("height_map")
            /\ e \in DOMAIN cache
            /\ Resolved(height_map[e])
            /\ <<e, height_map[e]>> \in
                    {heightMapStorage[i] : i \in 1..Len(heightMapStorage)})
           => /\ ~HasRecord(heightMapStorage', e)
              /\ OnlyAsksFor(heightMapStorage, e, height_map[e])
                    => cache'[e].height_map = Some(height_map[e])
        /\ (/\ ~HasRecord(heightStorage, e)
            /\ height[e] \in Handles
            /\ Resolved(height[e])
            /\ height'[e] = height[e]
            /\ images' = images)
           => ~HasRecord(heightStorage', e)
        /\ (/\ ~HasRecord(heightMapStorage, e)
            /\ Resolved(height_map[e])
            /\ height_map'[e] = height_map[e]
            /\ images' = images)
           => ~HasRecord(heightMapStorage', e)
      ]_vars

\* C2 witness: a run of prepare_height_buffer that observed nothing resolved the
\* one pending load and left the real texture in the chunk's entry.
C2_Witness ==
    /\ lastRun = [system |-> "height", query |-> {}, loaded |-> DOMAIN cache, dirty |-> {}]
    /\ gpu["height"] = 1
    /\ heightStorage = <<>>
    /\ \E e \in Entities :
        /\ DOMAIN cache = {e}
        /\ height[e] \in images
        /\ cache[e].blade_height_texture = Some(height[e])

\* what C3 says of one deferred-load system, for a registered chunk e with the
\* handle h: storage is the system's list, old and new are the entry's bind group
\* before and after the step
FallbackThenReal(system, e, h, storage, storage_after, old, new) ==
    LET clean == OnlyAsksFor(storage, e, h)
        pending == <<e, h>> \in {storage[i] : i \in 1..Len(storage)}
        pending_after == <<e, h>> \in {storage_after[i] : i \in 1..Len(storage_after)}
    IN  /\ (Runs(system) /\ e \in lastRun'.query /\ ~Resolved(h))
           => new = Some(FallbackView) /\ pending_after
        /\ (Runs(system) /\ ~Resolved(h) /\ clean /\ old = Some(FallbackView) /\ pending)
           => new = Some(FallbackView) /\ pending_after
        /\ (/\ Runs(system)
            /\ Resolved(h)
            /\ clean
            /\ (pending \/ e \in lastRun'.query \/ old = Some(h)))
           => new = Some(h)
        /\ old # None => new # None

\* C3: for a registered chunk whose height-map records all ask for its handle:
\* a run that observes it while the handle is unresolved leaves the fallback view
\* in the entry and a pending record; later runs before resolution keep both;
\* every run from resolution on leaves the real view; and the bind group, once
\* written, is never absent again.  The same holds of the blade-height texture
\* of prepare_height_buffer.
C3_FallbackThenReal ==
    [][\A e \in DOMAIN cache \cap DOMAIN cache' :
        /\ FallbackThenReal("height_map", e, height_map[e],
                            heightMapStorage, heightMapStorage',
                            cache[e].height_map, cache'[e].height_map)
        /\ height[e] \in Handles
            => FallbackThenReal("height", e, height[e], heightStorage, heightStorage',
                                cache[e].blade_height_texture,
                                cache'[e].blade_height_texture)
      ]_vars

\* C3 witness: after a run that did not observe it, a registered chunk with an
\* unresolved handle still has the fallback view and its pending record.
C3_Witness ==
    /\ lastRun.system = "height_map"
    /\ \E e \in DOMAIN cache \ lastRun.query :
        /\ ~Resolved(height_map[e])
        /\ cache[e].height_map = Some(FallbackView)
        /\ HasRecord(heightMapStorage, e)

\* every scheduled system has run: the frame is over
FrameOver == ran = config.scheduled

\* C4: no cache entry has both the uniform height bind group and the
\* height-texture bind group populated, and the one populated matches the
\* chunk's current height mode.
C4_HeightSourcesExclusive ==
    \A e \in DOMAIN cache :
        /\ ~(cache[e].height_buffer # None /\ cache[e].blade_height_texture # None)
        /\ cache[e].height_buffer # None => height[e] = Uniform
        /\ cache[e].blade_height_texture # None => height[e] # Uniform

\* C5: a frame of the whole schedule that begins with no change flag set, no
\* pending load and the noise view of the last run, and in which no input
\* changes and no query yields an entity, creates no GPU object (so every
\* handle of the registered chunks' entries is the one it was).
C5_PreparationIdempotent ==
    (FrameOver /\ config.scheduled = Systems /\ idle /\ DOMAIN cache # {})
        => \A system \in Systems : gpu[system] = 0

\* C6: prepare_uniform_buffers creates nothing and leaves the entries and
\* last_texture_id as they are exactly when the region configuration is not
\* flagged changed, the noise view is the one of last_texture_id and the cache is
\* not flagged changed; otherwise it builds one bind group (and its buffer) and
\* stores it in every entry.
C6_ThreeWayDirtyCheck ==
    [][Runs("uniform") =>
        LET dirty == \/ regionChanged
                     \/ Some(NoiseView) # last_texture_id
                     \/ cacheChanged
        IN  /\ ~dirty => /\ gpu'["uniform"] = 0
                         /\ cache' = cache
                         /\ last_texture_id' = last_texture_id
            /\ dirty => /\ gpu'["uniform"] = 2
                        /\ DOMAIN cache' = DOMAIN cache
                        /\ \A e \in DOMAIN cache :
                            cache'[e].uniform_bindgroup =
                                Some([bindings |-> <<"config", "noise">>,
                                      wind |-> wind, view |-> NoiseView])
      ]_vars

\* C6 witness: prepare_uniform_buffers took the skip path with chunks registered.
C6_Witness ==
    /\ lastRun.system = "uniform"
    /\ gpu["uniform"] = 0
    /\ DOMAIN cache = config.world
    /\ Cardinality(config.world) = 2

\* C7: in a frame of the whole schedule with a registered chunk in which no
\* input changed and no query yielded an entity, prepare_uniform_buffers skips.
C7_SkipsInUnchangedFrame ==
    (/\ FrameOver
     /\ config.scheduled = Systems
     /\ quiet
     /\ DOMAIN cache # {})
        => gpu["uniform"] = 0

\* C8: the texture is a square of side s with (s-1)^2 <= N < s^2, that is
\* s = floor(sqrt(N)) + 1, it holds s*s >= N texels, and its first N texels are
\* the input in its order.
C8_SideAndOrder ==
    /\ packer # "panicked"
    /\ packer = "done" =>
        LET N == Len(input)
            t == texture[1]
            s == t.width
        IN  /\ t.height = s
            /\ (s - 1) * (s - 1) <= N
            /\ N < s * s
            /\ Len(t.texels) >= N
            /\ \A i \in 1..N : t.texels[i] = input[i]

\* C8 witness: four samples were packed into a texture of side three.
C8_Witness ==
    /\ packer = "done"
    /\ Len(input) = 4
    /\ texture[1].width = 3
    /\ SubSeq(texture[1].texels, 1, 4) = input

\* C9: the side is the smallest n with n*n >= N.
C9_SideIsMinimal ==
    (packer = "done" /\ Len(input) >= 1)
        => (texture[1].width - 1) * (texture[1].width - 1) < Len(input)

\* C10: a chunk a system observed without a cache entry has its resources
\* written by that system in the first later frame in which the entry exists.
C10_SkippedChunkIsRetried ==
    FrameOver => \A p \in skipped : p[2] \notin DOMAIN cache

\* C11: no phase holds a draw command of an entity that has no cache entry, or
\* whose entry lacks both the instance buffer and the region bind group.
C11_NoDrawWithoutResources ==
    \A v \in Views : \A i \in 1..Len(phase[v]) :
        LET e == phase[v][i].entity
        IN  /\ e \in DOMAIN cache
            /\ ~(cache[e].grass_buffer = None /\ cache[e].uniform_bindgroup = None)

\* the number of draw commands of the entity in the phase
DrawsOf(transparent_phase, e) ==
    Cardinality({i \in 1..Len(transparent_phase) : transparent_phase[i].entity = e})

\* C12: a run of queue_grass_buffers pushes, for every view with an opaque phase
\* and every entity its query yields, exactly one draw command if the entity's
\* mesh resolves and none if it does not, and none for any other pair; and an
\* entity skipped for its mesh is drawn by the first later run that is handed it
\* with the mesh resolved.
C12_OneDrawPerViewAndEntity ==
    /\ [][Runs("queue") =>
            \A v \in Views : \A e \in Entities :
                DrawsOf(phase'[v], e) =
                    IF v \in views /\ e \in lastRun'.query /\ MeshOf[e] \in meshes
                    THEN 1 ELSE 0
         ]_vars
    /\ [](lastRun.system = "queue" =>
            \A e \in unmeshed \cap lastRun.query : MeshOf[e] \notin meshes)

\* C12 witness: with two views, the run was handed both entities, one with its mesh
\* resolved and one without: each phase holds the one command of the first.
C12_Witness ==
    /\ lastRun.system = "queue"
    /\ lastRun.query = Entities
    /\ views = Views
    /\ \E e \in Entities :
        /\ meshes = {MeshOf[e]}
        /\ unmeshed = Entities \ {e}
        /\ \A v \in Views : Len(phase[v]) = 1 /\ phase[v][1].entity = e

\* C13: a chunk with an empty position list never has explicit xz / y resources
\* in its cache entry.
C13_MissingPlacementIsFatal ==
    \A e \in DOMAIN cache :
        Positions[e] = 0 =>
            /\ cache[e].explicit_xz_buffer = None
            /\ cache[e].explicit_y_buffer = None

\* the records of a deferred-load list, as a set
Records(storage) == {storage[i] : i \in 1..Len(storage)}

\* what C14 says of one deferred-load system: loaded are the entities the first
\* loop resolved a record of, current the handle of each entity's component
ResolvesBeforeScan(system, storage, storage_after, loaded, current) ==
    Runs(system) =>
        /\ \A e \in loaded \cap lastRun'.query :
            (<<e, current[e]>> \in Records(storage) /\ Resolved(current[e]))
                => ~HasRecord(storage_after, e)
        \* what the list holds of such a chunk after the run, the scan pushed
        /\ \A r \in Records(storage_after) :
            r[1] \in loaded
                => /\ r[1] \in lastRun'.query
                   /\ r[2] = current[r[1]]
                   /\ ~Resolved(r[2])
                   /\ Len(RecordsOf(storage_after, r[1])) = 1

\* C14: in a run of prepare_height_buffer or prepare_height_map_buffer the
\* resolved records are removed before the scan: a chunk whose record resolved,
\* observed in the same run with the same texture, has no record after the run,
\* and whatever record such a chunk has after the run, the scan pushed.
C14_ResolvesBeforeScan ==
    [][/\ ResolvesBeforeScan("height", heightStorage, heightStorage',
            {r[1] : r \in {x \in Records(heightStorage) :
                                x[1] \in DOMAIN cache /\ Resolved(x[2])}},
            height)
       /\ ResolvesBeforeScan("height_map", heightMapStorage, heightMapStorage',
            {r[1] : r \in {x \in Records(heightMapStorage) : Resolved(x[2])}},
            height_map)
      ]_vars

\* C14 witness: a run of prepare_height_map_buffer resolved the record of a chunk
\* it also observed, and left the list empty.
C14_Witness ==
    /\ lastRun.system = "height_map"
    /\ heightMapStorage = <<>>
    /\ \E e \in lastRun.loaded \cap lastRun.query \cap DOMAIN cache :
        cache[e].height_map = Some(height_map[e])

\* C15: a run of a preparation system or of queue_grass_buffers leaves the set
\* of keys of the cache as it is.
C15_KeysUnchanged ==
    [][(\E system \in Systems \cup {"queue"} : Runs(system))
            => DOMAIN cache' = DOMAIN cache]_vars

\* C15 witness: a frame of the whole schedule and the queue stage is over, in
\* which a system observed an entity that has no cache entry, and none was made.
C15_Witness ==
    /\ FrameOver
    /\ config.scheduled = Systems \cup {"queue"}
    /\ lastRun.system = "queue"
    /\ \E p \in skipped : p[2] \notin DOMAIN cache /\ p[2] \in lastRun.query

\* C16: every field of a cache entry is written by one procedure only: the
\* explicit-position fields by prepare_explicit_positions_buffer, both height
\* fields by prepare_height_buffer, the height map by prepare_height_map_buffer,
\* the region bind group by prepare_uniform_buffers and the instance buffer by
\* prepare_instance_buffers.
C16_OneWriterPerField ==
    [][\A e \in DOMAIN cache \cap DOMAIN cache' :
        /\ (\/ cache'[e].explicit_count # cache[e].explicit_count
            \/ cache'[e].explicit_xz_buffer # cache[e].explicit_xz_buffer
            \/ cache'[e].explicit_y_buffer # cache[e].explicit_y_buffer)
           => Runs("explicit")
        /\ (\/ cache'[e].height_buffer # cache[e].height_buffer
            \/ cache'[e].blade_height_texture # cache[e].blade_height_texture)
           => Runs("height")
        /\ cache'[e].height_map # cache[e].height_map => Runs("height_map")
        /\ cache'[e].uniform_bindgroup # cache[e].uniform_bindgroup => Runs("uniform")
        /\ cache'[e].grass_buffer # cache[e].grass_buffer => Runs("instance")
      ]_vars

\* C17: the padding s*s - N is never negative, the padded data is s*s long, it
\* is the input followed by default values only, and the upload has the row
\* stride element_size * s and s rows.
C17_PadsToFill ==
    /\ packer # "panicked"
    /\ packer = "done" =>
        LET N == Len(input)
            t == texture[1]
            s == t.width
        IN  /\ s * s - N >= 0
            /\ Len(data) = s * s
            /\ t.texels = data
            /\ \A i \in 1..N : data[i] = input[i]
            /\ \A i \in (N + 1)..(s * s) : data[i] = DefaultValue
            /\ t.bytes_per_row = 4 * s
            /\ t.rows_per_image = s

\* C17 witness: five samples were padded with four default values.
C17_Witness ==
    /\ packer = "done"
    /\ Len(input) = MaxLen
    /\ Len(data) = Len(input) + 4
    /\ \A i \in 1..4 : data[Len(input) + i] = DefaultValue
    /\ \A i \in 1..Len(input) : input[i] # DefaultValue

\* C18: after a run of prepare_height_map_buffer, the entry of every registered
\* entity the run observed holds the bind group of the texture of the entity's
\* current handle if it resolves and of the fallback texture if not, whatever
\* the pending records resolved in that run.
C18_ScanDecidesHeightMap ==
    [][Runs("height_map") =>
        \A e \in lastRun'.query \cap DOMAIN cache :
            cache'[e].height_map =
                Some(IF Resolved(height_map[e]) THEN height_map[e] ELSE FallbackView)
      ]_vars

\* C18 witness: the run resolved a record of an observed chunk, yet the chunk's
\* handle is another one and unresolved: the entry holds the fallback view.
C18_Witness ==
    /\ lastRun.system = "height_map"
    /\ \E e \in lastRun.loaded \cap lastRun.query \cap DOMAIN cache :
        /\ ~Resolved(height_map[e])
        /\ cache[e].height_map = Some(FallbackView)

\* C19: a run of a deferred-load system keeps every record whose own handle is
\* unresolved.
C19_UnresolvedRecordIsKept ==
    [][/\ Runs("height") =>
            \A r \in Records(heightStorage) :
                ~Resolved(r[2]) => r \in Records(heightStorage')
       /\ Runs("height_map") =>
            \A r \in Records(heightMapStorage) :
                ~Resolved(r[2]) => r \in Records(heightMapStorage')
      ]_vars

\* C20: a run of a deferred-load system drops every record whose handle is
\* resolved, whether its entity has a cache entry or not.
C20_ResolvedRecordIsDropped ==
    [][/\ Runs("height") =>
            \A r \in Records(heightStorage) :
                Resolved(r[2]) => r \notin Records(heightStorage')
       /\ Runs("height_map") =>
            \A r \in Records(heightMapStorage) :
                Resolved(r[2]) => r \notin Records(heightMapStorage')
      ]_vars

\* the region bind group of the current region configuration and noise view
CurrentRegionBindGroup ==
    Some([bindings |-> <<"config", "noise">>,
          wind |-> wind,
          view |-> IF NoiseHandle \in images THEN NoiseHandle ELSE FallbackView])

\* C21: after every run of prepare_uniform_buffers, on the skip path too, every
\* cache entry holds the region bind group built from the current region
\* configuration and the current noise view (the fallback view while the noise
\* texture is unresolved), so all entries hold the same one and none is left
\* without.
C21_EveryEntryHasRegionBindGroup ==
    [][Runs("uniform") =>
        \A e \in DOMAIN cache' : cache'[e].uniform_bindgroup = CurrentRegionBindGroup
      ]_vars

\* C21 witness: prepare_uniform_buffers took the skip path with both chunks
\* registered, the wind changed since the start and the noise texture resolved,
\* and both entries hold the bind group of that wind and texture.
C21_Witness ==
    /\ lastRun.system = "uniform"
    /\ lastRun.dirty = {}
    /\ DOMAIN cache = Entities
    /\ wind = "w01"
    /\ NoiseHandle \in images
    /\ \A e \in Entities : cache[e].uniform_bindgroup = CurrentRegionBindGroup

====
